---- MODULE Spec2Model ----
(***************************************************************************)
(* Model of the bulk mail sender: src/src/main.rs (the program that runs)  *)
(* and src/src/smtp_mailer.rs (the library version of the parsers and of   *)
(* the message builder).                                                   *)
(*                                                                         *)
(* Text is a sequence of one-character strings.  The content file's text   *)
(* is drawn from the alphabet Chars; "\n" is the line terminator that      *)
(* str::lines splits at (no carriage return is in the alphabet, so the     *)
(* "\r\n" ending that lines() also strips does not occur).                 *)
(*                                                                         *)
(* Outside the model: the terminal (println!, flush and read! do not       *)
(* fail), env::current_exe, and the libraries behind the address parser,   *)
(* the TOML parser, the SMTP transport and the thread pool, which are      *)
(* modelled by what they return.                                           *)
(***************************************************************************)
EXTENDS Integers, Sequences, FiniteSets, TLC

\* ------------------------------------------------------------------ bounds
MaxFileLen == 9
MaxRecipients == 3
NumWorkers == 2
MaxPrompts == 2

\* ------------------------------------------------------------------ text
NL == "\n"
Chars == {"a", "-", NL}

RECURSIVE SplitNL(_)
\* The pieces of s between line feeds (one more piece than line feeds).
SplitNL(s) ==
    IF \A i \in 1..Len(s) : s[i] # NL
    THEN <<s>>
    ELSE LET k == CHOOSE i \in 1..Len(s) :
                     s[i] = NL /\ \A j \in 1..(i-1) : s[j] # NL
         IN  <<SubSeq(s, 1, k-1)>> \o SplitNL(SubSeq(s, k+1, Len(s)))

\* str::lines(): the pieces between line feeds; the final line ending is
\* optional, so a last empty piece is no line.
Lines(s) ==
    LET p == SplitNL(s)
    IN  IF p[Len(p)] = <<>> THEN SubSeq(p, 1, Len(p)-1) ELSE p

RECURSIVE Concat(_)
\* Iterator<Item = &str>::collect::<String>(): the items one after another.
Concat(ls) ==
    IF ls = <<>> THEN <<>> ELSE Head(ls) \o Concat(Tail(ls))

RECURSIVE join(_, _)
\* [&str]::join(sep)
join(ls, sep) ==
    IF ls = <<>> THEN <<>>
    ELSE IF Len(ls) = 1 THEN Head(ls)
    ELSE Head(ls) \o sep \o join(Tail(ls), sep)

Dashes == <<"-", "-", "-">>

Ok(v) == [ok |-> TRUE, val |-> v]
Err(e) == [ok |-> FALSE, err |-> e]

\* ------------------------------------------------------- content parsing
\* fs::read_to_string with the "Could not find file" context.
get_file_content(file) ==
    IF ~file.readable THEN Err("FileNotFound") ELSE Ok(file.content)

\* smtp_mailer.rs: the content type from the path's extension.
get_content_type(file) ==
    IF file.ext = "html" THEN Ok("Html")
    ELSE IF file.ext = "txt" THEN Ok("Plain")
    ELSE Err("UnsupportedContentType")

\* smtp_mailer.rs parse_mail_content.
parse_mail_content(file) ==
    LET fc == get_file_content(file)
        ct == get_content_type(file)
    IN  IF ~fc.ok THEN fc
        ELSE IF ~ct.ok THEN ct
        ELSE LET lines == Lines(fc.val)
             IN  IF Len(lines) < 2 THEN Err("PrematureEnd")
                 ELSE LET subject == lines[1]
                          sep == lines[2]
                          body == join(SubSeq(lines, 3, Len(lines)), <<NL>>)
                      IN  IF ~(sep = <<>> \/ sep = Dashes)
                          THEN Err("SeparatorMissing")
                          ELSE Ok([subject |-> subject, body |-> body,
                                   content_type |-> ct.val])

\* main.rs parse_mail_content: no content type, and the body is the
\* remaining lines collected into one String.
parse_mail_content_main(file) ==
    LET fc == get_file_content(file)
    IN  IF ~fc.ok THEN fc
        ELSE LET lines == Lines(fc.val)
             IN  IF Len(lines) < 2 THEN Err("PrematureEnd")
                 ELSE LET subject == lines[1]
                          sep == lines[2]
                          body == Concat(SubSeq(lines, 3, Len(lines)))
                      IN  IF ~(sep = <<>> \/ sep = Dashes)
                          THEN Err("SeparatorMissing")
                          ELSE Ok([subject |-> subject, body |-> body])

\* ------------------------------------------------------- message builder
\* The address strings of the model and what Mailbox::from_str makes of
\* them (lettre's parser, outside the repository).
ValidAddresses == {"a@example.com", "b@example.com", "list@example.com"}
RecipientPool == {"a@example.com", "not-an-address", "b@example.com", ""}
SenderPool == {"list@example.com", "bad-sender"}
ServerPool == {"smtp.example.com", "bad host"}

\* SmtpMailer::parse_pretty_error: the parse, with the offending string in
\* the error.
parse_pretty_error(mail) ==
    IF mail \in ValidAddresses THEN Ok(mail)
    ELSE Err([msg |-> "Invalid email address", addr |-> mail])

\* SmtpTransport::relay(&config.mailserver) with its context.
relay(mailserver) ==
    IF mailserver = "smtp.example.com" THEN Ok(mailserver)
    ELSE Err([msg |-> "Could not connect to mail server", addr |-> mailserver])

\* SmtpMailer::new: from, reply_to, to in this order, then the transport.
SmtpMailer_new(recipient, content, config) ==
    LET from == parse_pretty_error(config.sender)
        reply_to == parse_pretty_error(config.reply_to)
        to == parse_pretty_error(recipient)
        mailer == relay(config.mailserver)
    IN  IF ~from.ok THEN from
        ELSE IF ~reply_to.ok THEN reply_to
        ELSE IF ~to.ok THEN to
        ELSE IF ~mailer.ok THEN mailer
        ELSE Ok([email |-> [from |-> from.val, reply_to |-> reply_to.val,
                            to |-> to.val, subject |-> content.subject,
                            body |-> content.body],
                 lettre_mailer |-> mailer.val])

\* ------------------------------------------------------- the other files
\* The recipient file is given by its lines: lines() mapped to owned
\* strings, nothing trimmed, dropped or validated.
parse_recipients(file) ==
    IF ~file.readable THEN Err("FileNotFound")
    ELSE Ok([i \in 1..Len(file.lines) |-> file.lines[i]])

\* The configuration file is unreadable, malformed (toml::from_str fails)
\* or gives the record it deserialises to.
parse_config(file) ==
    IF ~file.readable THEN Err("FileNotFound")
    ELSE IF ~file.wellformed THEN Err("ConfigParseError")
    ELSE Ok(file.toml)

\* ------------------------------------------------------------------ state
VARIABLES
    opt_debug,        \* CliOptions.debug
    text_file,        \* the content file: [ext, readable, content]
    recipients_file,  \* the recipient file
    config_file,      \* the configuration file
    pc,               \* where main is
    text,             \* main's parse_mail_content result
    lib_text,         \* smtp_mailer's parse_mail_content result
    recipients,       \* Vec<MailAddress>
    config,           \* MailConfiguration
    correct_mailers,  \* Vec<SmtpMailer>
    errors,           \* Vec<anyhow::Error>
    stdout,           \* what was printed, in order
    stderr,           \* what was printed to the diagnostic stream
    input,            \* the line last read at the prompt
    full,             \* the parallel iterator's short-circuit flag
    workers,          \* the pool's busy threads: [st, item]
    mail_status,      \* each prepared message: ready, sending, sent, failed
    sends,            \* each prepared message: the transport calls made with it
    exit_code         \* the process's exit status, -1 while running

vars == <<opt_debug, text_file, recipients_file, config_file, pc, text,
          lib_text, recipients, config, correct_mailers, errors, stdout,
          stderr, input, full, workers, mail_status, sends,
          exit_code>>

inputs == <<opt_debug, text_file, recipients_file, config_file>>
sendvars == <<full, workers, mail_status, sends>>

Unset == [ok |-> FALSE, err |-> "unset"]

\* The sequences over S of length at most n.
SeqsUpTo(S, n) == UNION {[1..k -> S] : k \in 0..n}

Configs == [sender : SenderPool, reply_to : SenderPool, mailserver : ServerPool]

\* A file that cannot be read has no content to speak of.
TextFile(ext, readable, content) ==
    [ext |-> ext, readable |-> readable,
     content |-> IF readable THEN content ELSE <<>>]

\* The content files of a run: well-formed, one line only, no separator,
\* unreadable.
RunFiles ==
    { TextFile("txt", TRUE, <<"a", NL, "-", "-", "-", NL, "a", NL, "a">>),
      TextFile("txt", TRUE, <<"a">>),
      TextFile("txt", TRUE, <<"a", NL, "a", NL, "a">>),
      TextFile("txt", FALSE, <<>>) }

RecipientFiles ==
    {[readable |-> TRUE, lines |-> l] :
        l \in SeqsUpTo(RecipientPool, MaxRecipients)}
    \cup {[readable |-> FALSE, lines |-> <<>>]}

DefaultConfig ==
    [sender |-> "list@example.com", reply_to |-> "list@example.com",
     mailserver |-> "smtp.example.com"]

ConfigFiles ==
    {[readable |-> TRUE, wellformed |-> TRUE, toml |-> c] : c \in Configs}
    \cup {[readable |-> TRUE, wellformed |-> FALSE, toml |-> DefaultConfig],
          [readable |-> FALSE, wellformed |-> FALSE, toml |-> DefaultConfig]}

Fresh ==
    /\ pc = "start"
    /\ text = Unset
    /\ lib_text = Unset
    /\ recipients = <<>>
    /\ config = Unset
    /\ correct_mailers = <<>>
    /\ errors = <<>>
    /\ stdout = <<>>
    /\ stderr = <<>>
    /\ input = "none"
    /\ full = FALSE
    /\ workers = {}
    /\ mail_status = <<>>
    /\ sends = <<>>
    /\ exit_code = -1

Init ==
    /\ opt_debug \in BOOLEAN
    /\ text_file \in RunFiles
    /\ recipients_file \in RecipientFiles
    /\ config_file \in ConfigFiles
    /\ Fresh

\* ------------------------------------------------------------------ main
\* main returns Err(e): the error goes to the diagnostic stream, exit 1.
Abort(e) ==
    /\ stderr' = Append(stderr, [fatal |-> e])
    /\ exit_code' = 1
    /\ pc' = "exited"

\* main.rs:151
ParseText ==
    /\ pc = "start"
    /\ LET r == parse_mail_content_main(text_file)
       IN  IF r.ok
           THEN /\ text' = r
                /\ pc' = "text_parsed"
                /\ UNCHANGED <<stderr, exit_code>>
           ELSE /\ Abort(r.err)
                /\ UNCHANGED text
    /\ UNCHANGED <<inputs, lib_text, recipients, config, correct_mailers,
                   errors, stdout, input, sendvars>>

\* main.rs:152
ParseRecipients ==
    /\ pc = "text_parsed"
    /\ LET r == parse_recipients(recipients_file)
       IN  IF r.ok
           THEN /\ recipients' = r.val
                /\ pc' = "recipients_parsed"
                /\ UNCHANGED <<stderr, exit_code>>
           ELSE /\ Abort(r.err)
                /\ UNCHANGED recipients
    /\ UNCHANGED <<inputs, text, lib_text, config, correct_mailers, errors,
                   stdout, input, sendvars>>

\* ParseConfig with a default configuration taken when the file's does not
\* parse.
ParseConfig_DefaultOnError ==
    /\ pc = "recipients_parsed"
    /\ LET r == parse_config(config_file)
       IN  config' = IF r.ok THEN r ELSE Ok(DefaultConfig)
    /\ pc' = "build"
    /\ UNCHANGED <<inputs, text, lib_text, recipients, correct_mailers,
                   errors, stdout, stderr, input, sendvars, exit_code>>

\* main.rs:153-157
ParseConfig ==
    /\ pc = "recipients_parsed"
    /\ LET r == parse_config(config_file)
       IN  IF r.ok
           THEN /\ config' = r
                /\ pc' = "build"
                /\ UNCHANGED <<stderr, exit_code>>
           ELSE /\ Abort(r.err)
                /\ UNCHANGED config
    /\ UNCHANGED <<inputs, text, lib_text, recipients, correct_mailers,
                   errors, stdout, input, sendvars>>

\* BuildOne with each error put in front of the earlier ones.
BuildOne_PrependError ==
    /\ pc = "build"
    /\ Len(correct_mailers) + Len(errors) < Len(recipients)
    /\ LET addr == recipients[Len(correct_mailers) + Len(errors) + 1]
           r == SmtpMailer_new(addr, text.val, config.val)
       IN  IF r.ok
           THEN /\ correct_mailers' = Append(correct_mailers, r.val)
                /\ UNCHANGED errors
           ELSE /\ errors' = <<r.err>> \o errors
                /\ UNCHANGED correct_mailers
    /\ UNCHANGED <<inputs, pc, text, lib_text, recipients, config, stdout,
                   stderr, input, sendvars, exit_code>>

\* main.rs:162-167, one iteration: the next recipient is the one after
\* those already partitioned.
BuildOne ==
    /\ pc = "build"
    /\ Len(correct_mailers) + Len(errors) < Len(recipients)
    /\ LET addr == recipients[Len(correct_mailers) + Len(errors) + 1]
           r == SmtpMailer_new(addr, text.val, config.val)
       IN  IF r.ok
           THEN /\ correct_mailers' = Append(correct_mailers, r.val)
                /\ UNCHANGED errors
           ELSE /\ errors' = Append(errors, r.err)
                /\ UNCHANGED correct_mailers
    /\ UNCHANGED <<inputs, pc, text, lib_text, recipients, config, stdout,
                   stderr, input, sendvars, exit_code>>

\* main.rs:170-180: the summary line, and the errors when there are any.
Report ==
    /\ pc = "build"
    /\ Len(correct_mailers) + Len(errors) = Len(recipients)
    /\ stdout' = stdout \o
          <<[tag |-> "summary", found |-> Len(recipients),
             parsed |-> Len(correct_mailers), errors |-> Len(errors)]>> \o
          (IF Len(errors) > 0 THEN <<[tag |-> "errors"]>> ELSE <<>>)
    /\ stderr' = stderr \o errors
    /\ pc' = "reported"
    /\ UNCHANGED <<inputs, text, lib_text, recipients, config,
                   correct_mailers, errors, input, sendvars, exit_code>>

\* DebugReturn without the return: the dump is printed and the run goes on
\* to the prompt.
DebugReturn_FallThrough ==
    /\ pc = "reported"
    /\ opt_debug
    /\ stdout' = Append(stdout, [tag |-> "debug"])
    /\ pc' = "gate"
    /\ UNCHANGED <<inputs, text, lib_text, recipients, config,
                   correct_mailers, errors, stderr, input, sendvars,
                   exit_code>>

\* main.rs:183-186
DebugReturn ==
    /\ pc = "reported"
    /\ opt_debug
    /\ stdout' = Append(stdout, [tag |-> "debug"])
    /\ exit_code' = 0
    /\ pc' = "exited"
    /\ UNCHANGED <<inputs, text, lib_text, recipients, config,
                   correct_mailers, errors, stderr, input, sendvars>>

\* main.rs:189
Announce ==
    /\ pc = "reported"
    /\ ~opt_debug
    /\ stdout' = Append(stdout, [tag |-> "will_send"])
    /\ pc' = "gate"
    /\ UNCHANGED <<inputs, text, lib_text, recipients, config,
                   correct_mailers, errors, stderr, input, sendvars,
                   exit_code>>

\* ------------------------------------------------------------------ gate
\* What can be typed at the prompt, a line at a time.
Answers == {"y", "Y", "n", "N", "yes", ""}
Accepted == {"y", "Y", "n", "N"}

RECURSIVE CountTag(_, _)
\* How many lines of out carry the tag t.
CountTag(out, t) ==
    IF out = <<>> THEN 0
    ELSE (IF Head(out).tag = t THEN 1 ELSE 0) + CountTag(Tail(out), t)

\* ReadInput with the capitals of the two comparisons swapped: `N` sends
\* and `Y` cancels.
ReadInput_CaseSlip(inp) ==
    /\ pc = "gate"
    /\ inp \notin Accepted => CountTag(stdout, "unexpected") < MaxPrompts
    /\ input' = inp
    /\ IF inp = "y" \/ inp = "N"
       THEN /\ stdout' = Append(stdout, [tag |-> "prompt"])
            /\ mail_status' = [i \in 1..Len(correct_mailers) |-> "ready"]
            /\ sends' = [i \in 1..Len(correct_mailers) |-> 0]
            /\ pc' = "sending"
            /\ UNCHANGED exit_code
       ELSE IF inp = "n" \/ inp = "Y"
       THEN /\ stdout' = stdout \o <<[tag |-> "prompt"], [tag |-> "cancelled"]>>
            /\ pc' = "exited"
            /\ exit_code' = 0
            /\ UNCHANGED <<mail_status, sends>>
       ELSE /\ stdout' = stdout \o <<[tag |-> "prompt"], [tag |-> "unexpected"]>>
            /\ UNCHANGED <<pc, exit_code, mail_status, sends>>
    /\ UNCHANGED <<inputs, text, lib_text, recipients, config,
                   correct_mailers, errors, stderr, full, workers>>

\* ReadInput with an unrecognised line taken for a refusal.
ReadInput_GiveUp(inp) ==
    /\ pc = "gate"
    /\ input' = inp
    /\ IF inp = "y" \/ inp = "Y"
       THEN /\ stdout' = Append(stdout, [tag |-> "prompt"])
            /\ mail_status' = [i \in 1..Len(correct_mailers) |-> "ready"]
            /\ sends' = [i \in 1..Len(correct_mailers) |-> 0]
            /\ pc' = "sending"
            /\ UNCHANGED exit_code
       ELSE /\ stdout' = stdout \o <<[tag |-> "prompt"], [tag |-> "cancelled"]>>
            /\ pc' = "exited"
            /\ exit_code' = 0
            /\ UNCHANGED <<mail_status, sends>>
    /\ UNCHANGED <<inputs, text, lib_text, recipients, config,
                   correct_mailers, errors, stderr, full, workers>>

\* main.rs:192-210, one turn of the loop on the line inp.  `y` hands the
\* prepared messages to the parallel iterator (into_par_iter), `n` cancels,
\* anything else asks again.  The number of unrecognised answers is
\* unbounded in the code and capped at MaxPrompts here.
ReadInput(inp) ==
    /\ pc = "gate"
    /\ inp \notin Accepted => CountTag(stdout, "unexpected") < MaxPrompts
    /\ input' = inp
    /\ IF inp = "y" \/ inp = "Y"
       THEN /\ stdout' = Append(stdout, [tag |-> "prompt"])
            /\ mail_status' = [i \in 1..Len(correct_mailers) |-> "ready"]
            /\ sends' = [i \in 1..Len(correct_mailers) |-> 0]
            /\ pc' = "sending"
            /\ UNCHANGED exit_code
       ELSE IF inp = "n" \/ inp = "N"
       THEN /\ stdout' = stdout \o <<[tag |-> "prompt"], [tag |-> "cancelled"]>>
            /\ pc' = "exited"
            /\ exit_code' = 0
            /\ UNCHANGED <<mail_status, sends>>
       ELSE /\ stdout' = stdout \o <<[tag |-> "prompt"], [tag |-> "unexpected"]>>
            /\ UNCHANGED <<pc, exit_code, mail_status, sends>>
    /\ UNCHANGED <<inputs, text, lib_text, recipients, config,
                   correct_mailers, errors, stderr, full, workers>>

\* ------------------------------------------------------------------ send
(* correct_mailers.into_par_iter().try_for_each(|mailer| mailer.send()):   *)
(* each pool thread, before it takes up a message, looks at the shared     *)
(* flag `full` of the short-circuiting reduction; it then calls the        *)
(* closure (SmtpMailer::send, the transport) and, when the closure's       *)
(* result is back, records it: an Err sets `full`.  The transport call,    *)
(* its return and the recording are steps of their own, so other threads   *)
(* run between them.  Which thread gets which message is up to the pool's  *)
(* work stealing: any idle thread may take any message not yet taken.  The *)
(* threads are alike, so `workers` holds the busy ones, each known by the  *)
(* message it has; the other NumWorkers - Cardinality(workers) are idle.   *)

\* WorkerTake without the look at the flag.
WorkerTake_IgnoreFull(i) ==
    /\ pc = "sending"
    /\ Cardinality(workers) < NumWorkers
    /\ i \in DOMAIN mail_status
    /\ mail_status[i] = "ready"
    /\ workers' = workers \cup {[st |-> "sending", item |-> i]}
    /\ mail_status' = [mail_status EXCEPT ![i] = "sending"]
    /\ sends' = [sends EXCEPT ![i] = @ + 1]
    /\ UNCHANGED <<inputs, pc, text, lib_text, recipients, config,
                   correct_mailers, errors, stdout, stderr, input, full,
                   exit_code>>

\* An idle thread takes up message i and calls mailer.send() on it.
WorkerTake(i) ==
    /\ pc = "sending"
    /\ Cardinality(workers) < NumWorkers
    /\ ~full
    /\ i \in DOMAIN mail_status
    /\ mail_status[i] = "ready"
    /\ workers' = workers \cup {[st |-> "sending", item |-> i]}
    /\ mail_status' = [mail_status EXCEPT ![i] = "sending"]
    /\ sends' = [sends EXCEPT ![i] = @ + 1]
    /\ UNCHANGED <<inputs, pc, text, lib_text, recipients, config,
                   correct_mailers, errors, stdout, stderr, input, full,
                   exit_code>>

\* SmtpMailer::send on message i returns: Ok(()) or the transport's error
\* with the context "Could not send mail.".
TransportReply(i, ok) ==
    /\ pc = "sending"
    /\ [st |-> "sending", item |-> i] \in workers
    /\ workers' = (workers \ {[st |-> "sending", item |-> i]})
                     \cup {[st |-> "returned", item |-> i]}
    /\ mail_status' = [mail_status EXCEPT ![i] = IF ok THEN "sent" ELSE "failed"]
    /\ UNCHANGED <<inputs, pc, text, lib_text, recipients, config,
                   correct_mailers, errors, stdout, stderr, input, full,
                   sends, exit_code>>

\* WorkerRecord with a failed message put back to be sent again.
WorkerRecord_Retry(i) ==
    /\ pc = "sending"
    /\ [st |-> "returned", item |-> i] \in workers
    /\ mail_status' =
          IF mail_status[i] = "failed"
          THEN [mail_status EXCEPT ![i] = "ready"]
          ELSE mail_status
    /\ workers' = workers \ {[st |-> "returned", item |-> i]}
    /\ UNCHANGED <<inputs, pc, text, lib_text, recipients, config,
                   correct_mailers, errors, stdout, stderr, input, full,
                   sends, exit_code>>

\* The thread that sent message i hands the closure's result to the
\* reduction: an error sets the shared flag.  The thread is idle again.
WorkerRecord(i) ==
    /\ pc = "sending"
    /\ [st |-> "returned", item |-> i] \in workers
    /\ full' = (full \/ mail_status[i] = "failed")
    /\ workers' = workers \ {[st |-> "returned", item |-> i]}
    /\ UNCHANGED <<inputs, pc, text, lib_text, recipients, config,
                   correct_mailers, errors, stdout, stderr, input,
                   mail_status, sends, exit_code>>

Failed == {i \in DOMAIN mail_status : mail_status[i] = "failed"}
Min(S) == CHOOSE x \in S : \A y \in S : x <= y

\* Finish with the send error handed on as main's own (send_result?).
Finish_PropagateError ==
    /\ pc = "sending"
    /\ workers = {}
    /\ full \/ \A i \in DOMAIN mail_status : mail_status[i] # "ready"
    /\ stdout' = Append(stdout,
          IF Failed # {}
          THEN [tag |-> "failure", error |-> "Could not send mail.",
                of |-> Min(Failed),
                warning |-> "Some mails may have been sent and others not."]
          ELSE [tag |-> "success"])
    /\ pc' = "exited"
    /\ exit_code' = IF Failed # {} THEN 1 ELSE 0
    /\ UNCHANGED <<inputs, text, lib_text, recipients, config,
                   correct_mailers, errors, stderr, input, sendvars>>

\* main.rs:199-203 and 211: try_for_each returns once no thread is at work
\* and nothing is left to take up; its result is printed and main returns
\* Ok(()).
Finish ==
    /\ pc = "sending"
    /\ workers = {}
    /\ full \/ \A i \in DOMAIN mail_status : mail_status[i] # "ready"
    /\ stdout' = Append(stdout,
          IF Failed # {}
          THEN [tag |-> "failure", error |-> "Could not send mail.",
                of |-> Min(Failed),
                warning |-> "Some mails may have been sent and others not."]
          ELSE [tag |-> "success"])
    /\ pc' = "exited"
    /\ exit_code' = 0
    /\ UNCHANGED <<inputs, text, lib_text, recipients, config,
                   correct_mailers, errors, stderr, input, sendvars>>

\* --------------------------------------------------------- specifications
\* main's steps up to the prompt.
MainStep ==
    \/ ParseText
    \/ ParseRecipients
    \/ ParseConfig
    \/ BuildOne
    \/ Report
    \/ DebugReturn
    \/ Announce

\* The steps of try_for_each and of what follows it.
SendStep ==
    \/ \E i \in DOMAIN mail_status : WorkerTake(i)
    \/ \E i \in DOMAIN mail_status : \E ok \in BOOLEAN : TransportReply(i, ok)
    \/ \E i \in DOMAIN mail_status : WorkerRecord(i)
    \/ Finish

Next ==
    \/ MainStep
    \/ SendStep
    \/ \E inp \in Answers : ReadInput(inp)

Spec == Init /\ [][Next]_vars

\* Once the messages are with the parallel iterator its steps are taken
\* when they can be: the pool's threads run and the transport answers.
\* When a line is typed at the prompt is up to the operator.
FairSpec == Spec /\ WF_vars(SendStep)

\* The content parsers alone, on every content file up to MaxFileLen
\* characters and every kind of extension ("" is a path without one).
Extensions == {"txt", "html", "md", ""}

ParseInit ==
    /\ opt_debug = FALSE
    /\ text_file \in {TextFile(e, r, c) :
                         e \in Extensions, r \in BOOLEAN,
                         c \in SeqsUpTo(Chars, MaxFileLen)}
    /\ recipients_file = [readable |-> TRUE, lines |-> <<>>]
    /\ config_file = [readable |-> TRUE, wellformed |-> TRUE,
                      toml |-> DefaultConfig]
    /\ Fresh

\* main.rs's parse_mail_content applied to the file.
ApplyParseMain ==
    /\ text = Unset
    /\ text' = parse_mail_content_main(text_file)
    /\ UNCHANGED <<inputs, pc, lib_text, recipients, config, correct_mailers,
                   errors, stdout, stderr, input, sendvars, exit_code>>

\* smtp_mailer.rs's parse_mail_content applied to the file.
ApplyParseLib ==
    /\ lib_text = Unset
    /\ lib_text' = parse_mail_content(text_file)
    /\ UNCHANGED <<inputs, pc, text, recipients, config, correct_mailers,
                   errors, stdout, stderr, input, sendvars, exit_code>>

ParseNext == ApplyParseMain \/ ApplyParseLib

ParseSpec == ParseInit /\ [][ParseNext]_vars

\* ------------------------------------------------------ content parsing
FileLines == Lines(text_file.content)

\* The file has a subject line and a separator line.
WellFormedFile ==
    /\ text_file.readable
    /\ Len(FileLines) >= 2
    /\ FileLines[2] = <<>> \/ FileLines[2] = Dashes

\* b is the lines ls rejoined with newline characters: nothing for no line,
\* and otherwise a text that falls apart at its line feeds into ls again.
Rejoined(ls, b) == IF ls = <<>> THEN b = <<>> ELSE SplitNL(b) = ls

\* r is the first line as the subject and the lines from the third onward
\* as the body.
SubjectAndBody(r) ==
    /\ r.ok
    /\ r.val.subject = FileLines[1]
    /\ Rejoined(SubSeq(FileLines, 3, Len(FileLines)), r.val.body)

Supported == {"txt", "html"}

\* C7: for every content file with at least two lines whose second line is
\* empty or exactly `---`, parsing returns the first line as the subject and
\* the lines from the third onward rejoined with newline characters as the
\* body.  Both parsers are held to it (smtp_mailer.rs's on the extensions it
\* takes).
C7_SubjectAndBody ==
    WellFormedFile =>
        /\ text # Unset => SubjectAndBody(text)
        /\ (lib_text # Unset /\ text_file.ext \in Supported)
               => SubjectAndBody(lib_text)

\* smtp_mailer.rs's parser alone meets C7.
LibSubjectAndBody ==
    (WellFormedFile /\ lib_text # Unset /\ text_file.ext \in Supported)
        => SubjectAndBody(lib_text)

\* main.rs's parser gets the subject right, and the body when it has at
\* most one line.
MainSubjectAndShortBody ==
    (WellFormedFile /\ text # Unset /\ Len(FileLines) <= 3)
        => SubjectAndBody(text)

\* r is the unsupported-content-type error.
Unsupported(r) == ~r.ok /\ r.err = "UnsupportedContentType"

\* r, when it is a parsed content, carries the content type ct.
Typed(r, ct) ==
    r.ok => ("content_type" \in DOMAIN r.val /\ r.val.content_type = ct)

\* C8: for every readable content file whose extension is neither `.txt`
\* nor `.html` (including no extension), parsing fails with the
\* unsupported-content-type error whatever the content; `.txt` yields Plain
\* and `.html` yields Html.  Both parsers are held to it.
C8_ContentType ==
    text_file.readable =>
        \A r \in {text, lib_text} :
            r # Unset =>
                /\ text_file.ext \notin Supported => Unsupported(r)
                /\ text_file.ext = "txt" => Typed(r, "Plain")
                /\ text_file.ext = "html" => Typed(r, "Html")

\* smtp_mailer.rs's parser alone meets C8.
LibContentType ==
    (text_file.readable /\ lib_text # Unset) =>
        /\ text_file.ext \notin Supported => Unsupported(lib_text)
        /\ text_file.ext = "txt" => Typed(lib_text, "Plain")
        /\ text_file.ext = "html" => Typed(lib_text, "Html")

\* ------------------------------------------------------------ the run
\* The three files parse: main got past line 157.
FilesParsed == text.ok /\ config.ok /\ pc \notin {"start", "text_parsed", "recipients_parsed"}

\* Some file does not parse, said of the files themselves.
SomeFileBad ==
    \/ ~text_file.readable
    \/ Len(FileLines) < 2
    \/ ~(FileLines[2] = <<>> \/ FileLines[2] = Dashes)
    \/ ~recipients_file.readable
    \/ ~config_file.readable
    \/ ~config_file.wellformed

\* The build loop is over.
BuildDone == FilesParsed /\ pc # "build"

\* The configuration's own addresses and mail server are good.
GoodConfig ==
    /\ config.val.sender \in ValidAddresses
    /\ config.val.reply_to \in ValidAddresses
    /\ config.val.mailserver = "smtp.example.com"

IsValid(a) == a \in ValidAddresses
IsInvalid(a) == a \notin ValidAddresses

\* The recipients of the prepared messages and the strings the build errors
\* name, each in its sequence's order.
BuiltFor == [i \in 1..Len(correct_mailers) |-> correct_mailers[i].email.to]
ErrorsFor == [i \in 1..Len(errors) |-> errors[i].addr]

\* C1: with a valid sender, reply-to and mail server, the build phase ends
\* with one prepared message for each recipient that builds and one error
\* for each that does not (built + errors = N), whether a recipient builds
\* depends on that recipient alone, and both sequences keep the recipients'
\* order.
C1_BuildPartition ==
    (BuildDone /\ GoodConfig) =>
        /\ BuiltFor = SelectSeq(recipients, IsValid)
        /\ ErrorsFor = SelectSeq(recipients, IsInvalid)
        /\ Len(correct_mailers) + Len(errors) = Len(recipients)

C1_Witness ==
    /\ BuildDone
    /\ GoodConfig
    /\ recipients = <<"a@example.com", "not-an-address", "b@example.com">>
    /\ BuiltFor = <<"a@example.com", "b@example.com">>
    /\ ErrorsFor = <<"not-an-address">>

\* No transport call was made.
NoSend == \A i \in DOMAIN sends : sends[i] = 0

\* C2: with the debug flag set and the three files parsing, the run ends
\* with exit 0, never calls the transport, never prompts and never waits,
\* however many build errors there are.
C2_DebugDryRun ==
    opt_debug =>
        /\ NoSend
        /\ mail_status = <<>>
        /\ CountTag(stdout, "prompt") = 0
        /\ pc \notin {"gate", "sending"}
        /\ pc = "reported" => ENABLED DebugReturn
        /\ (pc = "exited" /\ FilesParsed) =>
              (exit_code = 0 /\ stdout[Len(stdout)].tag = "debug")

C2_Witness ==
    /\ opt_debug
    /\ pc = "exited"
    /\ exit_code = 0
    /\ Len(errors) > 0
    /\ Len(correct_mailers) > 0

\* C3: the transport is called only in a run whose prompt was answered
\* `y`/`Y`; a run whose prompt was answered `n`/`N` has ended, cancelled,
\* with exit 0 and no transport call, whatever was typed before.
C3_CancelSendsNothing ==
    /\ ~NoSend => input \in {"y", "Y"}
    /\ mail_status # <<>> => input \in {"y", "Y"}
    /\ input \in {"n", "N"} =>
          /\ pc = "exited"
          /\ exit_code = 0
          /\ NoSend
          /\ mail_status = <<>>
          /\ stdout[Len(stdout)].tag = "cancelled"
          /\ CountTag(stdout, "success") + CountTag(stdout, "failure") = 0

C3_Witness ==
    /\ input = "N"
    /\ pc = "exited"
    /\ CountTag(stdout, "unexpected") >= 1
    /\ Len(correct_mailers) > 0

\* C4: when the content file, the recipient file or the configuration file
\* does not parse, the run goes from the parses straight to a non-zero
\* exit: nothing is built, nothing is printed (no summary, no prompt) and
\* the transport is never called.
C4_ParseFailureAborts ==
    SomeFileBad =>
        /\ pc \in {"start", "text_parsed", "recipients_parsed", "exited"}
        /\ ~WellFormedFile => (pc \in {"start", "exited"} /\ recipients = <<>>)
        /\ ~recipients_file.readable => pc # "recipients_parsed"
        /\ config = Unset
        /\ correct_mailers = <<>>
        /\ errors = <<>>
        /\ stdout = <<>>
        /\ NoSend
        /\ mail_status = <<>>
        /\ pc = "exited" => (exit_code = 1 /\ Len(stderr) = 1)
        /\ pc # "exited" => exit_code = -1

C4_Witness ==
    /\ pc = "exited"
    /\ exit_code = 1
    /\ text.ok
    /\ Len(recipients) > 0
    /\ ~config_file.wellformed

\* ------------------------------------------------------------ sending
Answered == input \in {"y", "Y"}
Outcomes == CountTag(stdout, "success") + CountTag(stdout, "failure")
AllSent == \A i \in 1..Len(correct_mailers) : mail_status[i] = "sent"

\* C5: after `y`, whatever the workers' interleaving, each prepared message
\* is handed to the transport at most once, one batch outcome is reported
\* and no more, and it is success exactly when every prepared message was
\* sent with success; otherwise it is a failure carrying a transport error
\* and the partial-delivery warning.
C5_BatchOutcome ==
    /\ \A i \in DOMAIN sends : sends[i] <= 1
    /\ \A i \in DOMAIN sends : sends[i] = 0 <=> mail_status[i] = "ready"
    /\ Outcomes <= 1
    /\ pc = "sending" => Outcomes = 0
    /\ (pc = "exited" /\ Answered) =>
          /\ Outcomes = 1
          /\ DOMAIN mail_status = 1..Len(correct_mailers)
          /\ LET last == stdout[Len(stdout)]
             IN  IF AllSent
                 THEN last.tag = "success"
                 ELSE /\ last.tag = "failure"
                      /\ last.error = "Could not send mail."
                      /\ last.warning = "Some mails may have been sent and others not."
                      /\ mail_status[last.of] = "failed"

C5_Witness ==
    /\ pc = "exited"
    /\ Answered
    /\ Len(correct_mailers) = 3
    /\ CountTag(stdout, "failure") = 1
    /\ \E i, j \in DOMAIN mail_status :
          mail_status[i] = "sent" /\ mail_status[j] = "failed"

\* No message that no worker has begun is begun in this step.
NoNewSend ==
    \A i \in DOMAIN mail_status :
        mail_status[i] = "ready" =>
            (i \in DOMAIN mail_status' /\ mail_status'[i] = "ready")

GateTurn ==
    pc = "gate" =>
        /\ CountTag(stdout', "prompt") = CountTag(stdout, "prompt") + 1
        /\ IF input' \in Accepted
           THEN pc' # "gate"
           ELSE /\ pc' = "gate"
                /\ stdout' = stdout \o <<[tag |-> "prompt"], [tag |-> "unexpected"]>>
                /\ UNCHANGED <<inputs, text, recipients, config,
                               correct_mailers, errors, stderr, sendvars,
                               exit_code>>

\* C9: in a non-debug run the gate takes only `y`/`n` in either case; any
\* other line asks again and changes nothing else, as often as it comes
\* (here up to MaxPrompts times); the run leaves the gate exactly when
\* `y`/`Y`/`n`/`N` is read, and once it is read the run ends.
C9_ConfirmationGate ==
    /\ [][GateTurn]_vars
    /\ [][(pc = "gate" /\ pc' # "gate") => input' \in Accepted]_vars
    /\ []((pc = "gate" /\ CountTag(stdout, "unexpected") < MaxPrompts)
            => ENABLED ReadInput("yes"))
    /\ [](pc = "gate" => ~opt_debug)
    /\ (input \in Accepted) ~> (pc = "exited")

C9_Witness ==
    /\ pc = "gate"
    /\ CountTag(stdout, "unexpected") = 2
    /\ Len(correct_mailers) > 0
    /\ NoSend

\* C10: a transport failure is no fatal error of the run: once the failure
\* is reported the process ends with exit 0, as after a successful batch or
\* a cancellation; the exit is non-zero only when the content, recipient or
\* configuration file does not parse.
C10_FailureExitsZero ==
    /\ pc # "exited" => exit_code = -1
    /\ CountTag(stdout, "failure") > 0 => (pc = "exited" /\ exit_code = 0)
    /\ pc = "exited" =>
          /\ exit_code \in {0, 1}
          /\ exit_code = 1 <=> SomeFileBad
          /\ Failed # {} => exit_code = 0

C10_Witness ==
    /\ pc = "exited"
    /\ exit_code = 0
    /\ CountTag(stdout, "failure") = 1
    /\ Failed # {}

====
